---- MODULE Spec2Model ----
(***************************************************************************)
(* A model of anki.py: the card store, the deck, the scheduling functions, *)
(* the persistence layer (serialise / deserialise / write_state) and the   *)
(* review session run_repl drives.                                         *)
(*                                                                         *)
(* Numbers (intervals, factors, modifiers, timestamps counted in days) are *)
(* exact rationals tagged int or float; the rounding of IEEE doubles is    *)
(* not modelled.  The Python value None is PyNone.                         *)
(***************************************************************************)
EXTENDS Integers, Sequences, FiniteSets, TLC

VARIABLES
    pc,                     \* position of the process in main / run_repl
    ctx,                    \* frame handle_exit runs in: "main", "try", "except"
    now,                    \* datetime.now()
    print_summary_and_exit, \* the --summary flag
    state,                  \* anki_state: the deserialised prior document
    flash_cards,            \* the card store: path -> FlashCard
    deck,                   \* the active Deck
    disk,                   \* the file .anki-state.json
    shuffled_cards,         \* the work queue of run_repl
    card,                   \* the card popped from the queue
    due,                    \* len(shuffled_cards) at session start
    remaining,              \* the loop variable remaining
    rejected,               \* read_user_command: the last input at this prompt was no valid command
    command,                \* history: the input read_user_command returned in the last step, "" if none
    exit_status,            \* -1 while running, else the process's exit status
    session_start,          \* history: [cards, disk, now, due] when run_repl began
    graded,                 \* history: path -> [score, due, interval, factor] of its last grading
    retired,                \* history: paths graded with a resulting interval # 0
    saves,                  \* history: number of completed write_state calls
    interrupted_at          \* history: where the KeyboardInterrupt the handler caught arrived

vars == <<pc, ctx, now, print_summary_and_exit, state, flash_cards, deck, disk,
          shuffled_cards, card, due, remaining, rejected, command, exit_status,
          session_start, graded, retired, saves, interrupted_at>>

-----------------------------------------------------------------------------
(* Bounds of the model. *)

\* number of note paths of the directory
MaxCards == 2
\* days that may pass while the session waits for input
MaxTicks == 1

-----------------------------------------------------------------------------
(* Python numbers.  A number is <<n, d, f>>: the rational n/d in lowest     *)
(* terms, d > 0, and f = TRUE for a float, FALSE for an int.  A datetime is *)
(* such a number too: days since the epoch of the model, as a float.        *)

Abs(n) == IF n < 0 THEN -n ELSE n

RECURSIVE GCD(_, _)
GCD(a, b) == IF b = 0 THEN a ELSE GCD(b, a % b)

\* (in Num, Add, Sub, Mul and Max the operands are bound to their values by
\* the set constructors, so that each is evaluated once)
Num(n, d, f) ==
    LET norm(x, y) == LET s == IF y < 0 THEN -1 ELSE 1
                          g == GCD(Abs(x), Abs(y))
                      IN  <<(s * x) \div g, (s * y) \div g, f>>
    IN  CHOOSE r \in {norm(x, y) : x \in {n}, y \in {d}} : TRUE

PyInt(n) == <<n, 1, FALSE>>
PyFloat(n, d) == Num(n, d, TRUE)
\* float(x)
ToFloat(a) == <<a[1], a[2], TRUE>>
\* a + b, a - b, a * b: a float as soon as one operand is
Add(a, b) ==
    CHOOSE r \in {Num(x[1] * y[2] + y[1] * x[2], x[2] * y[2], x[3] \/ y[3]) :
                      x \in {a}, y \in {b}} : TRUE
Sub(a, b) ==
    CHOOSE r \in {Num(x[1] * y[2] - y[1] * x[2], x[2] * y[2], x[3] \/ y[3]) :
                      x \in {a}, y \in {b}} : TRUE
Mul(a, b) ==
    CHOOSE r \in {Num(x[1] * y[1], x[2] * y[2], x[3] \/ y[3]) :
                      x \in {a}, y \in {b}} : TRUE
\* a == b, a <= b, a < b compare the values, whatever the types
Eq(a, b) == a[1] * b[2] = b[1] * a[2]
Le(a, b) == a[1] * b[2] <= b[1] * a[2]
Lt(a, b) == a[1] * b[2] < b[1] * a[2]
\* max(a, b): the first of the largest, with its own type
Max(a, b) == CHOOSE r \in {IF Lt(x, y) THEN y ELSE x : x \in {a}, y \in {b}} : TRUE
\* timedelta.days: the floor of a span counted in days
Days(a) == a[1] \div a[2]

-----------------------------------------------------------------------------
(* Values. *)

PyNone == "<None>"
QUIT_CMDS == {"q", "Q"}
Score(s) == CASE s = "1" -> "FAIL" [] s = "2" -> "HARD" [] s = "3" -> "PASS" [] s = "4" -> "EASY"

PathNames == <<"a.md", "b.md", "c.md", "d.md">>
PathIndex(p) == CHOOSE i \in 1..Len(PathNames) : PathNames[i] = p

DefaultInterval == 0
DefaultFactor == 1300
FactorFloor == 1300
FailPenalty == 200
HardPenalty == 150
EasyBonus == 150
DefaultStandardModifier == PyFloat(10, 10)
DefaultEasyModifier == PyFloat(13, 10)
DefaultFailModifier == PyFloat(0, 10)

FlashCard(path, tags, question, answer, d, interval, factor) ==
    [path |-> path, tags |-> tags, question |-> question, answer |-> answer,
     due |-> d, interval |-> interval, factor |-> factor]

Deck(tag, cards, m, m4, m0) ==
    [tag |-> tag, flash_cards |-> cards, standard_interval_modifier |-> m,
     easy_interval_modifier |-> m4, fail_interval_modifier |-> m0]

AnkiState(decks, cards) == [decks |-> decks, flash_cards |-> cards]

NoCard == FlashCard("", <<>>, "", "", PyFloat(0, 1), PyInt(0), PyInt(0))
EmptyMap == [k \in {} |-> 0]
InSeq(x, s) == \E i \in 1..Len(s) : s[i] = x

\* None where a namedtuple is expected (dict.get on a missing key)
NoState == [none |-> TRUE]
Get(map, k) == IF k \in DOMAIN map THEN map[k] ELSE NoState

-----------------------------------------------------------------------------
(* Construction: maybe_state, filter_by_tag, new_flash_card, new_deck. *)

\* state[state._fields.index(key)] if state else fallback; a namedtuple with
\* fields is truthy, None is not
maybe_state(st, key, fallback) == IF st = NoState THEN fallback ELSE st[key]

\* the paths (in directory order) of the cards c with tag in c.tags
filter_by_tag(cards, tag) ==
    LET has(i) == /\ PathNames[i] \in DOMAIN cards
                  /\ InSeq(tag, cards[PathNames[i]].tags)
    IN  SelectSeq([i \in 1..Len(PathNames) |-> i], has)

\* a MarkdownFile is [path, tags, question, answer]
new_flash_card(md, st, t) ==
    FlashCard(md.path, md.tags, md.question, md.answer,
              maybe_state(st, "due", t),
              maybe_state(st, "interval", PyInt(DefaultInterval)),
              maybe_state(st, "factor", PyInt(DefaultFactor)))

new_deck(tag, card_indices, st) ==
    Deck(tag,
         [k \in 1..Len(card_indices) |-> PathNames[card_indices[k]]],
         maybe_state(st, "standard_interval_modifier", DefaultStandardModifier),
         maybe_state(st, "easy_interval_modifier", DefaultEasyModifier),
         maybe_state(st, "fail_interval_modifier", DefaultFailModifier))

\* mutant of update_flash_card: the tags of the card are lost
update_flash_card_without_tags(c, interval, factor, d) ==
    FlashCard(c.path, <<>>, c.question, c.answer, d, interval, factor)

update_flash_card(c, interval, factor, d) ==
    FlashCard(c.path, c.tags, c.question, c.answer, d, interval, factor)

-----------------------------------------------------------------------------
(* The scheduling engine. *)

\* mutant of calculate_new_interval: PASS and EASY lose their floors
calculate_new_interval_without_floors(score, c, dk, t) ==
    LET i  == c.interval
        m  == dk.standard_interval_modifier
        m0 == dk.fail_interval_modifier
        m4 == dk.easy_interval_modifier
        f  == c.factor
        d  == Days(Sub(t, c.due))
        i1 == Mul(m0, i)
        i2 == Max(Add(i, PyInt(1)),
                  Mul(Mul(Add(i, PyFloat(d, 4)), PyFloat(12, 10)), m))
        i3 == Mul(Mul(Add(i, PyFloat(d, 2)), Mul(f, PyFloat(1, 1000))), m)
        i4 == Mul(Mul(Mul(Add(i, PyInt(d)), Mul(f, PyFloat(1, 1000))), m), m4)
    IN  CASE score = "FAIL" -> i1
          [] score = "HARD" -> i2
          [] score = "PASS" -> i3
          [] score = "EASY" -> i4

calculate_new_interval(score, c, dk, t) ==
    LET i  == c.interval
        m  == dk.standard_interval_modifier
        m0 == dk.fail_interval_modifier
        m4 == dk.easy_interval_modifier
        f  == c.factor
        d  == Days(Sub(t, c.due))
        i1 == Mul(m0, i)
        i2 == Max(Add(i, PyInt(1)),
                  Mul(Mul(Add(i, PyFloat(d, 4)), PyFloat(12, 10)), m))
        i3 == Max(Add(i2, PyInt(1)),
                  Mul(Mul(Add(i, PyFloat(d, 2)), Mul(f, PyFloat(1, 1000))), m))
        i4 == Max(Add(i3, PyInt(1)),
                  Mul(Mul(Mul(Add(i, PyInt(d)), Mul(f, PyFloat(1, 1000))), m), m4))
    IN  CASE score = "FAIL" -> i1
          [] score = "HARD" -> i2
          [] score = "PASS" -> i3
          [] score = "EASY" -> i4

\* mutant of calculate_new_factor: the floor of 1300 is missing
calculate_new_factor_without_floor(score, c) ==
    CASE score = "FAIL" -> Sub(c.factor, PyInt(FailPenalty))
      [] score = "HARD" -> Sub(c.factor, PyInt(HardPenalty))
      [] score = "PASS" -> c.factor
      [] score = "EASY" -> Add(c.factor, PyInt(EasyBonus))

calculate_new_factor(score, c) ==
    CASE score = "FAIL" -> Max(PyInt(FactorFloor), Sub(c.factor, PyInt(FailPenalty)))
      [] score = "HARD" -> Max(PyInt(FactorFloor), Sub(c.factor, PyInt(HardPenalty)))
      [] score = "PASS" -> c.factor
      [] score = "EASY" -> Max(PyInt(FactorFloor), Add(c.factor, PyInt(EasyBonus)))

-----------------------------------------------------------------------------
(* The persistence layer.  A JSON document is the record                    *)
(* [decks |-> key -> deck dict, flash_cards |-> key -> card dict]; the file *)
(* is [kind |-> "absent"], [kind |-> "empty"] (opened for writing, nothing  *)
(* written yet) or [kind |-> "json", doc |-> document].                     *)

\* str(datetime) and datetime.fromisoformat
DateStr(t) == [iso |-> t]
FromIsoFormat(s) == s.iso

\* json.dumps writes the key None as "null"
JsonKey(k) == IF k = PyNone THEN "null" ELSE k

card_as_dict(c) == [c EXCEPT !.due = DateStr(c.due)]
card_from_dict(d) ==
    [d EXCEPT !.due = FromIsoFormat(d.due),
              !.interval = ToFloat(d.interval),
              !.factor = ToFloat(d.factor)]
deck_from_dict(d) ==
    [d EXCEPT !.standard_interval_modifier = ToFloat(d.standard_interval_modifier),
              !.easy_interval_modifier = ToFloat(d.easy_interval_modifier),
              !.fail_interval_modifier = ToFloat(d.fail_interval_modifier)]

NoFile == [kind |-> "absent"]
EmptyFile == [kind |-> "empty"]
JsonFile(doc) == [kind |-> "json", doc |-> doc]
EmptyDoc == [decks |-> EmptyMap, flash_cards |-> EmptyMap]

\* read_anki_state: the text of the file, '{}' when there is none
read_anki_state(file) == IF file.kind = "json" THEN file.doc ELSE EmptyDoc

deserialise(doc) ==
    AnkiState([t \in DOMAIN doc.decks |-> deck_from_dict(doc.decks[t])],
              [p \in DOMAIN doc.flash_cards |-> card_from_dict(doc.flash_cards[p])])

\* The dictionary serialise hands to json.dumps.  The prior cards are the
\* FlashCard namedtuples deserialise built, the session's cards are dicts.
new_state_flash_cards(cards, st) ==
    [p \in DOMAIN st.flash_cards \cup DOMAIN cards |->
        IF p \in DOMAIN cards
        THEN [type |-> "dict", value |-> card_as_dict(cards[p])]
        ELSE [type |-> "FlashCard", value |-> st.flash_cards[p]]]

new_state_deck_keys(dk, st) == DOMAIN st.decks \cup {dk.tag}

new_state_decks(dk, st) ==
    [t \in new_state_deck_keys(dk, st) |-> IF t = dk.tag THEN dk ELSE st.decks[t]]

\* json.dumps raises TypeError on a datetime (a FlashCard namedtuple is
\* written as a list of its fields, due among them) ...
HasUnserialisable(cs) == \E p \in DOMAIN cs : cs[p].type = "FlashCard"
\* ... and, with sort_keys, on a dictionary that has the key None beside a str key
SortKeysFails(keys) == PyNone \in keys /\ keys # {PyNone}

serialise(cards, dk, st) ==
    LET cs == new_state_flash_cards(cards, st)
        ks == new_state_deck_keys(dk, st)
        ds == new_state_decks(dk, st)
    IN  IF HasUnserialisable(cs) \/ SortKeysFails(ks)
        THEN [ok |-> FALSE, error |-> "TypeError"]
        ELSE [ok |-> TRUE,
              doc |-> [decks |-> [k \in {JsonKey(t) : t \in ks} |->
                                     ds[CHOOSE t \in ks : JsonKey(t) = k]],
                       flash_cards |-> [p \in DOMAIN cs |-> cs[p].value]]]


write_state_open(file) == EmptyFile
write_state_write(text) == JsonFile(text)

-----------------------------------------------------------------------------
(* The inputs of a run: the note directory, the prior document, the deck   *)
(* tag and the --summary flag.                                             *)

StartTime == PyFloat(0, 1)

\* What a path of the directory can be: note says whether a flash card file
\* exists (with tags), prior whether the prior document has a card for it.
CardKinds == <<
    [name |-> "absent",  note |-> FALSE, prior |-> FALSE],
    [name |-> "fresh",   note |-> TRUE,  prior |-> FALSE, tags |-> <<"x">>],
    [name |-> "overdue", note |-> TRUE,  prior |-> TRUE,  tags |-> <<"x">>,
     due |-> PyFloat(-3, 1), interval |-> PyFloat(10, 1), factor |-> PyFloat(1450, 1)],
    [name |-> "other",   note |-> TRUE,  prior |-> TRUE,  tags |-> <<"y">>,
     due |-> PyFloat(0, 1),  interval |-> PyInt(0),       factor |-> PyInt(1300)],
    [name |-> "orphan",  note |-> FALSE, prior |-> TRUE,  tags |-> <<"x">>,
     due |-> PyFloat(5, 1),  interval |-> PyFloat(2, 1),  factor |-> PyFloat(1300, 1)],
    [name |-> "future",  note |-> TRUE,  prior |-> TRUE,  tags |-> <<"x">>,
     due |-> PyFloat(1, 1),  interval |-> PyInt(2),       factor |-> PyInt(1300)] >>

\* one kind per path; paths differ in nothing but their kind, so the kinds
\* are taken in non-decreasing order
KindAssignments ==
    {ks \in [1..MaxCards -> 1..Len(CardKinds)] :
        \A i \in 1..(MaxCards - 1) : ks[i] <= ks[i + 1]}

DeckTags == {"x", "y", PyNone}

Modifiers(m, m4, m0) ==
    [standard_interval_modifier |-> m, easy_interval_modifier |-> m4,
     fail_interval_modifier |-> m0]
DefaultModifiers ==
    Modifiers(DefaultStandardModifier, DefaultEasyModifier, DefaultFailModifier)
\* modifiers edited in the document by hand
EditedModifiers == Modifiers(PyFloat(1, 2), PyInt(2), PyInt(2))

\* The deck map of the prior document: key -> [tag, modifiers].
DeckDocs == <<
    EmptyMap,
    "x" :> [tag |-> "x", mods |-> DefaultModifiers],
    ("x" :> [tag |-> "x", mods |-> EditedModifiers])
        @@ ("y" :> [tag |-> "y", mods |-> DefaultModifiers]),
    "null" :> [tag |-> PyNone, mods |-> DefaultModifiers] >>

MarkdownFile(i, k) ==
    [path |-> PathNames[i], tags |-> k.tags, question |-> "Q", answer |-> "A"]

PriorCards(kinds) ==
    LET ps == {i \in 1..MaxCards : CardKinds[kinds[i]].prior}
    IN  [p \in {PathNames[i] : i \in ps} |->
            LET k == CardKinds[kinds[PathIndex(p)]]
            IN  [path |-> p, tags |-> k.tags, question |-> "Q", answer |-> "A",
                 due |-> DateStr(k.due), interval |-> k.interval, factor |-> k.factor]]

PriorDecks(kinds, cfg) ==
    LET cards == PriorCards(kinds)
        dd == DeckDocs[cfg]
    IN  [t \in DOMAIN dd |->
            LET members == filter_by_tag(cards, dd[t].tag)
            IN  [tag |-> dd[t].tag,
                 flash_cards |-> [k \in 1..Len(members) |-> PathNames[members[k]]],
                 standard_interval_modifier |-> dd[t].mods.standard_interval_modifier,
                 easy_interval_modifier |-> dd[t].mods.easy_interval_modifier,
                 fail_interval_modifier |-> dd[t].mods.fail_interval_modifier]]

\* The file a previous run left: none before the first run; a document with
\* cards always has a deck.
PriorFile(kinds, cfg) ==
    IF DOMAIN PriorCards(kinds) = {} /\ DOMAIN DeckDocs[cfg] = {}
    THEN NoFile
    ELSE JsonFile([decks |-> PriorDecks(kinds, cfg), flash_cards |-> PriorCards(kinds)])

ValidInput(kinds, cfg) ==
    DOMAIN DeckDocs[cfg] = {} => DOMAIN PriorCards(kinds) = {}

\* the flash card files of the directory: path -> MarkdownFile
NoteFiles(kinds) ==
    LET ns == {i \in 1..MaxCards : CardKinds[kinds[i]].note}
    IN  [p \in {PathNames[i] : i \in ns} |->
            MarkdownFile(PathIndex(p), CardKinds[kinds[PathIndex(p)]])]

\* main: the prior state is read and deserialised, the card store is built
\* from the flash card files and the prior cards, the deck from the tag, the
\* store and the prior deck; run_repl starts
main(deck_tag, markdown_files, file, summary) ==
    /\ now = StartTime
    /\ disk = file
    /\ state = deserialise(read_anki_state(disk))
    /\ flash_cards = [p \in DOMAIN markdown_files |->
                         new_flash_card(markdown_files[p], Get(state.flash_cards, p), now)]
    /\ deck = new_deck(deck_tag, filter_by_tag(flash_cards, deck_tag),
                       Get(state.decks, deck_tag))
    /\ print_summary_and_exit = summary
    /\ pc = "start"
    /\ ctx = "main"
    /\ shuffled_cards = <<>>
    /\ card = NoCard
    /\ due = 0
    /\ remaining = 0
    /\ rejected = FALSE
    /\ command = ""
    /\ exit_status = -1
    /\ session_start = [cards |-> flash_cards, disk |-> disk, now |-> now]
    /\ graded = EmptyMap
    /\ retired = {}
    /\ saves = 0
    /\ interrupted_at = ""

Init ==
    \E kinds \in KindAssignments, deck_tag \in DeckTags,
       cfg \in 1..Len(DeckDocs), summary \in BOOLEAN :
        /\ ValidInput(kinds, cfg)
        /\ main(deck_tag, NoteFiles(kinds), PriorFile(kinds, cfg), summary)

(* The inputs of the runs that exercise the scheduling engine: one note    *)
(* a.md tagged x, a document with its card and the deck x, the values of   *)
(* the card and of the modifiers drawn from grids.                         *)

GridIntervals == {PyFloat(0, 1), PyFloat(5, 2), PyFloat(10, 1)}
GridFactors == {PyFloat(1300, 1), PyFloat(1450, 1), PyFloat(2500, 1)}
GridDues == {PyFloat(0, 1), PyFloat(-9, 1)}
GridStandardModifiers == {PyFloat(1, 2), PyFloat(1, 1), PyFloat(2, 1)}
GridFailModifiers == {PyFloat(0, 1), PyFloat(1, 1), PyFloat(2, 1)}
GridEasyModifiers == {PyFloat(1, 2), PyFloat(13, 10)}

GridFile(i, f, d, m, m4, m0) ==
    JsonFile([decks |-> "x" :> Deck("x", <<"a.md">>, m, m4, m0),
              flash_cards |-> "a.md" :> FlashCard("a.md", <<"x">>, "Q", "A", DateStr(d), i, f)])

SchedInit ==
    \E i \in GridIntervals, f \in GridFactors, d \in GridDues,
       m \in GridStandardModifiers, m4 \in GridEasyModifiers, m0 \in GridFailModifiers :
        main("x",
             "a.md" :> [path |-> "a.md", tags |-> <<"x">>, question |-> "Q", answer |-> "A"],
             GridFile(i, f, d, m, m4, m0), FALSE)

-----------------------------------------------------------------------------
(* run_repl. *)

\* mutant of QuestionCommands: the question prompt returns a grade too
QuestionCommands_with_grades == {"a", "A", "1", "2", "3", "4"} \cup QUIT_CMDS

QuestionCommands == {"a", "A"} \cup QUIT_CMDS
AnswerCommands == {"1", "2", "3", "4"} \cup QUIT_CMDS
ExitCommands == {"q", "Q"}
\* what the user may type at a prompt
Keys == {"a", "A", "q", "Q", "1", "2", "3", "4", "z"}

\* mutant of read_user_command: every input is returned
read_user_command_without_check(user_input, valid_commands) == TRUE

\* read_user_command: TRUE when the loop returns user_input, FALSE when it
\* prompts again
read_user_command(user_input, valid_commands) == user_input \in valid_commands

\* Score(int(s)) is a score for these inputs and raises ValueError for others
IsScore(s) == s \in {"1", "2", "3", "4"}

\* mutant of due_cards: every member of the deck, due or not
due_cards_whatever_due(dk, cards, t) ==
    LET is_member(i) == /\ PathNames[i] \in DOMAIN cards
                        /\ InSeq(PathNames[i], dk.flash_cards)
        idx == SelectSeq([i \in 1..Len(PathNames) |-> i], is_member)
    IN  [k \in 1..Len(idx) |-> cards[PathNames[idx[k]]]]

\* the cards of the store (in dictionary order) that are members of the deck
\* and due
due_cards(dk, cards, t) ==
    LET is_due(i) == /\ PathNames[i] \in DOMAIN cards
                     /\ InSeq(PathNames[i], dk.flash_cards)
                     /\ Le(cards[PathNames[i]].due, t)
        idx == SelectSeq([i \in 1..Len(PathNames) |-> i], is_due)
    IN  [k \in 1..Len(idx) |-> cards[PathNames[idx[k]]]]

\* sorted(cards, key=lambda _: random.random()): any order of the same cards
Shuffles(cards) ==
    {[k \in 1..Len(cards) |-> cards[f[k]]] : f \in Permutations(1..Len(cards))}

\* handle_score: the new (interval, factor, due) of the card of the store
handle_score(s, card_id, cards, dk, t) ==
    LET score == Score(s)
        c == cards[card_id]
        interval == calculate_new_interval(score, c, dk, t)
        factor == calculate_new_factor(score, c)
    IN  [score |-> score, interval |-> interval, factor |-> factor,
         due |-> ToFloat(Add(t, interval))]

\* mutant of pop_rest: the card shown stays in the queue
pop_rest_keeping_front(queue) == queue

\* shuffled_cards.pop(0): what the queue holds after the pop
pop_rest(queue) == Tail(queue)

\* mutant of requeue: every graded card goes back to the queue
requeue_always(queue, c) == Append(queue, c)

\* if card.interval == 0: shuffled_cards.append(card)
requeue(queue, c) == IF Eq(c.interval, PyInt(0)) THEN Append(queue, c) ELSE queue

\* mutant of saves_on_exit: summary mode saves too
saves_on_exit_always(summary) == TRUE

\* handle_exit: if not print_summary_and_exit: write_state(...)
saves_on_exit(summary) == ~summary

InSession == pc \in {"question", "answer"}
History == <<session_start, graded, retired, saves, interrupted_at>>
\* a step that is no return of read_user_command
NoCommand == command' = ""
Session == <<shuffled_cards, card, due, remaining>>
Loaded == <<print_summary_and_exit, state, deck>>

\* run_repl up to its first prompt: summary mode calls handle_exit outside
\* the try block; otherwise the due cards are shuffled and the first is shown
Start ==
    /\ pc = "start"
    /\ IF print_summary_and_exit
       THEN /\ pc' = "exiting"
            /\ ctx' = "main"
            /\ UNCHANGED Session
       ELSE \E queue \in Shuffles(due_cards(deck, flash_cards, now)) :
                /\ due' = Len(queue)
                /\ remaining' = Len(queue)
                /\ ctx' = "try"
                /\ IF Len(queue) > 0
                   THEN /\ card' = Head(queue)
                        /\ shuffled_cards' = pop_rest(queue)
                        /\ pc' = "question"
                   ELSE /\ card' = card
                        /\ shuffled_cards' = queue
                        /\ pc' = "exiting"
    /\ NoCommand
    /\ UNCHANGED <<now, flash_cards, disk, rejected, exit_status, Loaded, History>>

\* read_user_question_command + handle_question_input
QuestionInput ==
    /\ pc = "question"
    /\ \E key \in Keys :
        IF ~read_user_command(key, QuestionCommands)
        THEN /\ rejected' = TRUE
             /\ NoCommand
             /\ pc' = pc
        ELSE /\ rejected' = FALSE
             /\ command' = key
             /\ pc' = IF key \in QUIT_CMDS THEN "exiting" ELSE "answer"
    /\ UNCHANGED <<ctx, now, flash_cards, disk, exit_status, Loaded, Session, History>>

\* read_user_answer_command + handle_answer_input + the rest of the loop body
AnswerInput ==
    /\ pc = "answer"
    /\ \E key \in Keys :
        IF ~read_user_command(key, AnswerCommands)
        THEN /\ rejected' = TRUE
             /\ NoCommand
             /\ UNCHANGED <<pc, flash_cards, Session, graded, retired, exit_status>>
        ELSE IF key \in QUIT_CMDS
        THEN /\ rejected' = FALSE
             /\ command' = key
             /\ pc' = "exiting"
             /\ UNCHANGED <<flash_cards, Session, graded, retired, exit_status>>
        ELSE IF ~IsScore(key)
        THEN \* handle_score raises ValueError, which nothing catches
             /\ rejected' = FALSE
             /\ command' = key
             /\ pc' = "done"
             /\ exit_status' = 1
             /\ UNCHANGED <<flash_cards, Session, graded, retired>>
        ELSE \E r \in {handle_score(key, card.path, flash_cards, deck, now)} :
             LET c == update_flash_card(card, r.interval, r.factor, r.due)
                 queue == requeue(shuffled_cards, c)
             IN  /\ rejected' = FALSE
                 /\ command' = key
                 /\ exit_status' = exit_status
                 /\ flash_cards' = [flash_cards EXCEPT ![c.path] = c]
                 /\ remaining' = Len(queue)
                 /\ due' = due
                 /\ graded' = (c.path :> r) @@ graded
                 /\ retired' = IF Eq(c.interval, PyInt(0)) THEN retired
                               ELSE retired \cup {c.path}
                 /\ IF Len(queue) > 0
                    THEN /\ card' = Head(queue)
                         /\ shuffled_cards' = pop_rest(queue)
                         /\ pc' = "question"
                    ELSE /\ card' = c
                         /\ shuffled_cards' = queue
                         /\ pc' = "exiting"
    /\ UNCHANGED <<ctx, now, disk, Loaded, session_start, saves, interrupted_at>>

\* handle_exit up to the opening of the file: serialise, then open(path, 'w')
\* truncates the file.  A TypeError of json.dumps is caught nowhere: the
\* process ends with status 1.
HandleExit ==
    /\ pc = "exiting"
    /\ IF ~saves_on_exit(print_summary_and_exit)
       THEN /\ pc' = "exit_prompt"
            /\ UNCHANGED <<disk, exit_status>>
       ELSE IF serialise(flash_cards, deck, state).ok
       THEN /\ pc' = "writing"
            /\ disk' = write_state_open(disk)
            /\ UNCHANGED exit_status
       ELSE /\ pc' = "done"
            /\ exit_status' = 1
            /\ UNCHANGED disk
    /\ NoCommand
    /\ UNCHANGED <<ctx, now, flash_cards, rejected, Loaded, Session, History>>

\* f.write(state) and the closing of the file; the exit prompt follows
WriteState ==
    /\ pc = "writing"
    /\ disk' = write_state_write(serialise(flash_cards, deck, state).doc)
    /\ saves' = saves + 1
    /\ pc' = "exit_prompt"
    /\ NoCommand
    /\ UNCHANGED <<ctx, now, flash_cards, rejected, exit_status, Loaded, Session,
                   session_start, graded, retired, interrupted_at>>

\* read_user_exit_command, then sys.exit(0)
ExitInput ==
    /\ pc = "exit_prompt"
    /\ \E key \in Keys :
        IF ~read_user_command(key, ExitCommands)
        THEN /\ rejected' = TRUE
             /\ NoCommand
             /\ UNCHANGED <<pc, exit_status>>
        ELSE /\ rejected' = FALSE
             /\ command' = key
             /\ pc' = "done"
             /\ exit_status' = 0
    /\ UNCHANGED <<ctx, now, flash_cards, disk, Loaded, Session, History>>

\* KeyboardInterrupt: inside the try block the handler calls handle_exit;
\* outside it (summary mode, or already in the handler) nothing catches it
\* and the interpreter ends the process on SIGINT (status 130)
Interrupt ==
    /\ pc \in {"question", "answer", "exiting", "writing", "exit_prompt"}
    /\ IF ctx = "try"
       THEN /\ pc' = "exiting"
            /\ ctx' = "except"
            /\ interrupted_at' = IF InSession THEN pc ELSE "handle_exit"
            /\ UNCHANGED exit_status
       ELSE /\ pc' = "done"
            /\ exit_status' = 130
            /\ UNCHANGED <<ctx, interrupted_at>>
    /\ rejected' = FALSE
    /\ NoCommand
    /\ UNCHANGED <<now, flash_cards, disk, Loaded, Session, session_start, graded,
                   retired, saves>>

\* a day passes before the user grades the answer shown
Tick ==
    /\ pc = "answer"
    /\ Lt(now, Add(StartTime, PyInt(MaxTicks)))
    /\ now' = ToFloat(Add(now, PyInt(1)))
    /\ NoCommand
    /\ UNCHANGED <<pc, ctx, flash_cards, disk, rejected, exit_status, Loaded,
                   Session, History>>

\* The summary read_user_exit_command shows.  The keys of a dictionary come
\* in the order of the document, which json.dumps wrote sorted.
DictOrder == <<"null", "x", "y">>

\* the cards of the dictionary cards whose path is in the deck's list
deck_cards(dk, cards) == {cards[p] : p \in {q \in DOMAIN cards : InSeq(q, dk.flash_cards)}}

\* get_info: the line of a deck; next(iter(sorted(deck_cards))) raises
\* StopIteration when the deck has no card
get_info(dk, cards) ==
    LET cs == deck_cards(dk, cards)
    IN  IF cs = {}
        THEN [ok |-> FALSE, error |-> "StopIteration"]
        ELSE [ok |-> TRUE, tag |-> dk.tag, deck_size |-> Cardinality(cs),
              next_due |-> (CHOOSE c \in cs : \A o \in cs : Le(c.due, o.due)).due]

\* '\n'.join(map(get_info, decks.values())): join takes the lines of map one
\* by one, and the StopIteration get_info raises ends the iteration of map
\* as if the decks were exhausted
RECURSIVE join_map_get_info(_, _, _)
join_map_get_info(k, decks, cards) ==
    IF k > Len(DictOrder) THEN <<>>
    ELSE IF DictOrder[k] \notin DOMAIN decks THEN join_map_get_info(k + 1, decks, cards)
    ELSE LET line == get_info(decks[DictOrder[k]], cards)
         IN  IF line.ok THEN <<line>> \o join_map_get_info(k + 1, decks, cards)
             ELSE <<>>

determine_decks_info(decks, cards) == join_map_get_info(1, decks, cards)

Next ==
    \/ Start
    \/ QuestionInput
    \/ AnswerInput
    \/ HandleExit
    \/ WriteState
    \/ ExitInput
    \/ Interrupt
    \/ Tick

Spec == Init /\ [][Next]_vars

\* the review loop, up to handle_exit, over the grids of the scheduling engine
SchedNext ==
    \/ Start
    \/ QuestionInput
    \/ AnswerInput
    \/ Tick

SchedSpec == SchedInit /\ [][SchedNext]_vars

\* The review loop with a user who goes on: a question shown is revealed in
\* the end, and a card whose answer is shown again and again gets, in the
\* end, a grade that leaves it an interval other than 0.
Reveal == QuestionInput /\ pc' = "answer"
RetiringGrade == AnswerInput /\ card.path \in retired'

LiveSpec ==
    /\ Init /\ [][SchedNext]_vars
    /\ WF_vars(Start) /\ WF_vars(Reveal) /\ SF_vars(RetiringGrade)


-----------------------------------------------------------------------------
(* Helpers of the properties. *)

QueuePaths == {shuffled_cards[k].path : k \in 1..Len(shuffled_cards)}
One == PyInt(1)
Zero == PyInt(0)
ElapsedDays(c) == Days(Sub(now, c.due))

\* the prior document, as read at startup
PriorDoc == read_anki_state(session_start.disk)
Orphans == DOMAIN state.flash_cards \ DOMAIN flash_cards
\* equality of two card dicts and of two deck dicts of a document, numbers
\* compared by value (1300 and 1300.0 are the same number)
SameCardDict(a, b) ==
    /\ a.path = b.path /\ a.tags = b.tags
    /\ a.question = b.question /\ a.answer = b.answer
    /\ Eq(a.due.iso, b.due.iso)
    /\ Eq(a.interval, b.interval) /\ Eq(a.factor, b.factor)
SameDeckDict(a, b) ==
    /\ a.tag = b.tag /\ a.flash_cards = b.flash_cards
    /\ Eq(a.standard_interval_modifier, b.standard_interval_modifier)
    /\ Eq(a.easy_interval_modifier, b.easy_interval_modifier)
    /\ Eq(a.fail_interval_modifier, b.fail_interval_modifier)
\* the (due, interval, factor) a card dict of a document holds are those of v
HoldsSchedule(entry, v) ==
    /\ Eq(entry.due.iso, v.due)
    /\ Eq(entry.interval, v.interval)
    /\ Eq(entry.factor, v.factor)
\* the process ended, and not by an interrupt nothing caught
Ended == pc = "done" /\ exit_status # 130

-----------------------------------------------------------------------------
(* C1: what the document holds after a session that graded cards.         *)

\* C1: when a session in which cards were graded has ended, the file holds a
\* document with, for every card of the store, the schedule of its last
\* grading, or its schedule of before the session if it was not graded
C1_GradingsArePersisted ==
    (Ended /\ ~print_summary_and_exit /\ DOMAIN graded # {}) =>
        /\ disk.kind = "json"
        /\ \A p \in DOMAIN flash_cards :
              /\ p \in DOMAIN disk.doc.flash_cards
              /\ HoldsSchedule(disk.doc.flash_cards[p],
                               IF p \in DOMAIN graded THEN graded[p]
                               ELSE session_start.cards[p])

-----------------------------------------------------------------------------
(* C2: every exit saves and ends with status 0.                            *)

\* C2: a review run that ended has written the merged document and ended
\* with status 0
C2_ExitSavesAndSucceeds ==
    (Ended /\ ~print_summary_and_exit) =>
        /\ exit_status = 0
        /\ saves >= 1
        /\ disk = JsonFile(serialise(flash_cards, deck, state).doc)

-----------------------------------------------------------------------------
(* C3: an interrupt is a Quit.                                             *)

\* C3: a run that ended after an interrupt arrived at the question or at the
\* grade prompt has persisted the document a Quit persists there and ended
\* with status 0
C3_InterruptExitsLikeQuit ==
    (Ended /\ interrupted_at \in {"question", "answer"}) =>
        /\ exit_status = 0
        /\ disk = JsonFile(serialise(flash_cards, deck, state).doc)

-----------------------------------------------------------------------------
(* C4: the card map of the document serialise produces.                    *)

\* C4: for a deck with a tag, when handle_exit is about to save, serialise
\* succeeds, and the card map of its document has the cards of the store and
\* the prior cards that are not in the store, these as they were
C4_CardMapIsUnion ==
    (pc = "exiting" /\ saves_on_exit(print_summary_and_exit) /\ deck.tag # PyNone) =>
        LET r == serialise(flash_cards, deck, state)
        IN  /\ r.ok
            /\ DOMAIN r.doc.flash_cards = DOMAIN PriorDoc.flash_cards \cup DOMAIN flash_cards
            /\ \A p \in DOMAIN flash_cards :
                  r.doc.flash_cards[p] = card_as_dict(flash_cards[p])
            /\ \A p \in Orphans :
                  SameCardDict(r.doc.flash_cards[p], PriorDoc.flash_cards[p])

-----------------------------------------------------------------------------
(* C5: the deck map of the document serialise produces.                    *)

\* C5: when no prior card is an orphan and handle_exit is about to save,
\* serialise succeeds, and the deck map of its document is the prior deck
\* map with the entry of the active deck put under the key of its tag
C5_DeckMapKeepsOtherDecks ==
    (pc = "exiting" /\ saves_on_exit(print_summary_and_exit) /\ Orphans = {}) =>
        LET r == serialise(flash_cards, deck, state)
            key == JsonKey(deck.tag)
        IN  /\ r.ok
            /\ DOMAIN r.doc.decks = DOMAIN PriorDoc.decks \cup {key}
            /\ SameDeckDict(r.doc.decks[key], deck)
            /\ \A t \in DOMAIN PriorDoc.decks \ {key} :
                  SameDeckDict(r.doc.decks[t], PriorDoc.decks[t])

-----------------------------------------------------------------------------
(* C6: a graded card goes to the back of the queue iff its new interval is *)
(* 0; a card graded with an interval above 0 is not presented again.       *)

\* while the loop runs, the graded cards with interval 0 are exactly the
\* graded cards that wait in the queue or are shown; no retired card is
C6_QueueHoldsTheFailed ==
    InSession =>
        /\ \A p \in DOMAIN graded :
              Eq(flash_cards[p].interval, Zero) <=> p \in QueuePaths \cup {card.path}
        /\ retired \cap (QueuePaths \cup {card.path}) = {}

\* a grading that shows a next card: the graded card is appended at the back
\* iff its interval is 0
C6_RequeueStep ==
    (pc = "answer" /\ pc' = "question") =>
        LET c == flash_cards'[card.path]
        IN  <<card'>> \o shuffled_cards' =
                IF Eq(c.interval, Zero) THEN Append(shuffled_cards, c)
                ELSE shuffled_cards

\* C6: requeue iff the resulting interval is 0, at the back of the queue;
\* a card with a resulting interval above 0 is never presented again
C6_RequeueIffIntervalZero == [](C6_QueueHoldsTheFailed) /\ [][C6_RequeueStep]_vars

\* a failed card is shown again after another card was retired
C6_Witness ==
    /\ pc = "question"
    /\ card.path \in DOMAIN graded
    /\ Eq(flash_cards[card.path].interval, Zero)
    /\ retired # {}

-----------------------------------------------------------------------------
(* C7: without a deck tag the deck holds every card of the store.          *)

\* C7: the deck built for the absent tag has every card of the store as member
C7_NoTagMeansAllCards ==
    deck.tag = PyNone =>
        {deck.flash_cards[k] : k \in 1..Len(deck.flash_cards)} = DOMAIN flash_cards

-----------------------------------------------------------------------------
(* C8: summary mode.                                                       *)

\* C8 as stated: handle_exit calls the save path in summary mode too
C8_SummaryStillSaves ==
    (print_summary_and_exit /\ pc = "exit_prompt") => saves >= 1

\* C8 as amended: summary mode presents and grades no card, goes from the
\* start to handle_exit, never calls write_state and leaves the file and the
\* card store as they were
C8_SummaryWritesNothing ==
    print_summary_and_exit =>
        /\ pc \in {"start", "exiting", "exit_prompt", "done"}
        /\ card = NoCard /\ shuffled_cards = <<>> /\ DOMAIN graded = {}
        /\ saves = 0
        /\ disk = session_start.disk
        /\ flash_cards = session_start.cards

\* a summary run over a directory with cards the document does not hold yet
\* ended with status 0
C8_Witness ==
    /\ print_summary_and_exit
    /\ pc = "done" /\ exit_status = 0
    /\ \E p \in DOMAIN flash_cards : p \notin DOMAIN state.flash_cards

-----------------------------------------------------------------------------
(* C9: the factor floor.                                                   *)

\* C9: every card of the store has a factor of at least 1300
C9_FactorFloor ==
    \A p \in DOMAIN flash_cards : Le(PyInt(FactorFloor), flash_cards[p].factor)

\* a card that started at 1450 was graded FAIL (1250 without the floor)
C9_Witness ==
    \E p \in DOMAIN graded :
        /\ graded[p].score = "FAIL"
        /\ Eq(session_start.cards[p].factor, PyInt(1450))
        /\ Eq(flash_cards[p].factor, PyInt(FactorFloor))

-----------------------------------------------------------------------------
(* C10: the order of the four intervals.                                   *)

NextInterval(score) == calculate_new_interval(score, flash_cards[card.path], deck, now)

\* C10 as stated: FAIL < HARD < PASS < EASY for the card to grade, whatever
\* the modifiers
C10_StrictlyOrdered ==
    pc = "answer" =>
        /\ Lt(NextInterval("FAIL"), NextInterval("HARD"))
        /\ Lt(NextInterval("HARD"), NextInterval("PASS"))
        /\ Lt(NextInterval("PASS"), NextInterval("EASY"))

\* C10 as amended: PASS is at least HARD + 1 and EASY at least PASS + 1
\* whatever the modifiers; FAIL is below HARD when the fail modifier is at
\* most 1
C10_OrderedAboveFail ==
    pc = "answer" =>
        /\ Le(Add(NextInterval("HARD"), One), NextInterval("PASS"))
        /\ Le(Add(NextInterval("PASS"), One), NextInterval("EASY"))
        /\ Le(deck.fail_interval_modifier, One) =>
              Lt(NextInterval("FAIL"), NextInterval("HARD"))

\* an overdue card with a positive interval is to grade under a fail
\* modifier of 1
C10_Witness ==
    /\ pc = "answer"
    /\ Lt(Zero, flash_cards[card.path].interval)
    /\ ElapsedDays(flash_cards[card.path]) > 0
    /\ Eq(deck.fail_interval_modifier, One)

-----------------------------------------------------------------------------
(* C11: the four gradings of a fresh card under the default modifiers.     *)

IsFresh(c) ==
    /\ Eq(c.interval, PyInt(DefaultInterval))
    /\ Eq(c.factor, PyInt(DefaultFactor))
    /\ Eq(c.due, now)
HasDefaultModifiers(dk) ==
    /\ Eq(dk.standard_interval_modifier, DefaultStandardModifier)
    /\ Eq(dk.easy_interval_modifier, DefaultEasyModifier)
    /\ Eq(dk.fail_interval_modifier, DefaultFailModifier)
\* the paths of the card shown and of the cards that wait, after the step
NextQueuePaths == {card'.path} \cup {shuffled_cards'[k].path : k \in 1..Len(shuffled_cards')}

C11_FreshCardStep ==
    (/\ pc = "answer" /\ IsScore(command')
     /\ IsFresh(flash_cards[card.path]) /\ HasDefaultModifiers(deck)) =>
        LET c == flash_cards'[card.path]
            is(i, f) == Eq(c.interval, PyInt(i)) /\ Eq(c.factor, PyInt(f))
        IN  CASE command' = "1" -> /\ is(0, 1300)
                                   /\ pc' = "question"
                                   /\ card.path \in NextQueuePaths
              [] command' = "2" -> is(1, 1300)
              [] command' = "3" -> is(2, 1300)
              [] command' = "4" -> is(3, 1450)

\* C11: a fresh card (interval 0, factor 1300, due now) graded under the
\* default modifiers gets interval 0 and factor 1300 and is requeued on FAIL,
\* 1 and 1300 on HARD, 2 and 1300 on PASS, 3 and 1450 on EASY
C11_FreshCardGradings == [][C11_FreshCardStep]_vars

\* a card that was fresh when the session began has just been graded EASY on
\* the same day, under the default modifiers
C11_Witness ==
    /\ command = "4"
    /\ now = session_start.now
    /\ HasDefaultModifiers(deck)
    /\ \E p \in DOMAIN graded :
          /\ graded[p].score = "EASY"
          /\ Eq(session_start.cards[p].interval, PyInt(DefaultInterval))
          /\ Eq(session_start.cards[p].factor, PyInt(DefaultFactor))
          /\ Eq(session_start.cards[p].due, session_start.now)
          /\ Eq(flash_cards[p].factor, PyInt(1450))

-----------------------------------------------------------------------------
(* C12: deserialise after serialise.                                       *)

\* the FlashCard and the Deck deserialise builds have the fields of a and of
\* b, numbers compared by value
SameFlashCard(a, b) ==
    /\ a.path = b.path /\ a.tags = b.tags
    /\ a.question = b.question /\ a.answer = b.answer
    /\ Eq(a.due, b.due) /\ Eq(a.interval, b.interval) /\ Eq(a.factor, b.factor)
SameDeck(a, b) ==
    /\ a.tag = b.tag /\ a.flash_cards = b.flash_cards
    /\ Eq(a.standard_interval_modifier, b.standard_interval_modifier)
    /\ Eq(a.easy_interval_modifier, b.easy_interval_modifier)
    /\ Eq(a.fail_interval_modifier, b.fail_interval_modifier)

\* C12: when handle_exit is about to save, serialise yields a document, and
\* deserialise of it yields every card of the store, every prior card that
\* is not in the store, the active deck and every other prior deck, each
\* with the fields that were serialised
C12_RoundTrip ==
    (pc = "exiting" /\ saves_on_exit(print_summary_and_exit)) =>
        LET r == serialise(flash_cards, deck, state)
            back == deserialise(r.doc)
            key == JsonKey(deck.tag)
        IN  /\ r.ok
            /\ DOMAIN back.flash_cards = DOMAIN flash_cards \cup DOMAIN state.flash_cards
            /\ \A p \in DOMAIN flash_cards :
                  SameFlashCard(back.flash_cards[p], flash_cards[p])
            /\ \A p \in Orphans :
                  SameFlashCard(back.flash_cards[p], state.flash_cards[p])
            /\ DOMAIN back.decks = DOMAIN state.decks \cup {key}
            /\ SameDeck(back.decks[key], deck)
            /\ \A t \in DOMAIN state.decks \ {key} :
                  SameDeck(back.decks[t], state.decks[t])

-----------------------------------------------------------------------------
(* C13: the summary of the exit prompt.                                    *)

\* the lines of the summary the exit prompt shows
SummaryLines == determine_decks_info(state.decks, state.flash_cards)
\* the number of cards of the prior document that are in the deck's list
MemberCount(dk) ==
    Cardinality({p \in DOMAIN state.flash_cards : InSeq(p, dk.flash_cards)})

\* C13: the summary of the exit prompt has a line for every deck of the
\* prior document, with the number of its cards in that document (0 for a
\* deck without cards), and the process ends with status 0 after the prompt
C13_SummaryCoversEveryDeck ==
    /\ pc = "exit_prompt" =>
          \A t \in DOMAIN state.decks :
              \E k \in 1..Len(SummaryLines) :
                  /\ SummaryLines[k].tag = state.decks[t].tag
                  /\ SummaryLines[k].deck_size = MemberCount(state.decks[t])
    /\ (pc = "done" /\ command \in ExitCommands) => exit_status = 0

-----------------------------------------------------------------------------
(* C14: the write of the document.                                         *)

\* C14: in every state of a run the file is as it was when the run began, or
\* it holds the complete document of this run
C14_NoTornDocument ==
    \/ disk = session_start.disk
    \/ /\ serialise(flash_cards, deck, state).ok
       /\ disk = JsonFile(serialise(flash_cards, deck, state).doc)

-----------------------------------------------------------------------------
(* C15: the due cards are selected once, when the session starts.          *)

\* the members of the deck that were due when the session began
Snapshot ==
    {p \in DOMAIN session_start.cards :
        /\ InSeq(p, deck.flash_cards)
        /\ Le(session_start.cards[p].due, session_start.now)}
\* the members of the deck that are due now and were not when the session began
BecameDue ==
    {p \in DOMAIN flash_cards \ Snapshot :
        InSeq(p, deck.flash_cards) /\ Le(flash_cards[p].due, now)}

\* C15: the card presented, and every card that was graded, is a member of
\* the deck that was due when the session began
C15_OnlySnapshotCardsShown ==
    /\ InSession => card.path \in Snapshot
    /\ DOMAIN graded \subseteq Snapshot

\* a card became due during the session, and the session shows another card
\* after that
C15_Witness ==
    /\ pc = "question"
    /\ BecameDue # {}
    /\ DOMAIN graded # {}

-----------------------------------------------------------------------------
(* C16: what a grading changes.                                            *)

\* a step in which the answer prompt returned a grade
IsGrading == pc = "answer" /\ IsScore(command')

C16_GradingStep ==
    IsGrading =>
        /\ DOMAIN flash_cards' = DOMAIN flash_cards
        /\ \A p \in DOMAIN flash_cards \ {card.path} : flash_cards'[p] = flash_cards[p]
        /\ flash_cards'[card.path].path = flash_cards[card.path].path
        /\ flash_cards'[card.path].tags = flash_cards[card.path].tags
        /\ flash_cards'[card.path].question = flash_cards[card.path].question
        /\ flash_cards'[card.path].answer = flash_cards[card.path].answer
        /\ deck' = deck
        /\ state' = state
        /\ disk' = disk

\* C16: a grading changes no entry of the card store but the one of the
\* graded card, in it nothing but due, interval and factor, and neither the
\* deck nor the prior document nor the file
C16_GradingChangesOneCard == [][C16_GradingStep]_vars

\* a card of a store with two cards has just been graded and has a new
\* schedule, the other card is as it was
C16_Witness ==
    /\ IsScore(command)
    /\ \E p \in DOMAIN graded, q \in DOMAIN flash_cards :
          /\ p # q
          /\ ~Eq(flash_cards[p].interval, session_start.cards[p].interval)
          /\ flash_cards[q] = session_start.cards[q]

-----------------------------------------------------------------------------
(* C17: an input that is no command of the grade prompt.                   *)

C17_GradePromptStep ==
    pc = "answer" =>
        \* the prompt returns nothing but a grade or a quit command
        /\ command' \in AnswerCommands \cup {""}
        \* an input that is no command: the same prompt, nothing changed
        /\ (rejected' /\ now' = now) =>
              /\ pc' = "answer"
              /\ UNCHANGED <<flash_cards, shuffled_cards, card, due, remaining, graded>>
        \* no grade returned: handle_score did not run
        /\ ~IsScore(command') =>
              UNCHANGED <<flash_cards, shuffled_cards, card, graded>>
        \* handle_score ran with the grade returned, and raised no ValueError
        /\ IsScore(command') => graded'[card.path].score = Score(command')
        /\ pc' # "done"

\* C17: at the grade prompt an input that is none of 1, 2, 3, 4, q, Q changes
\* neither the card store nor the queue nor the card shown and the prompt is
\* shown again; handle_score runs with one of the four grades only
C17_InvalidGradeRejected == [][C17_GradePromptStep]_vars

\* the grade prompt is shown again after an input that is no command, with
\* cards waiting in the queue
C17_Witness ==
    /\ pc = "answer"
    /\ rejected
    /\ shuffled_cards # <<>>

-----------------------------------------------------------------------------
(* C18: the order of the prompts.                                          *)

RevealCommands == {"a", "A"}
GradeCommands == {"1", "2", "3", "4"}
\* the queue once the graded card was put back or not
QueueAfterGrading ==
    IF Eq(flash_cards'[card.path].interval, Zero)
    THEN Append(shuffled_cards, flash_cards'[card.path])
    ELSE shuffled_cards

C18_ProtocolStep ==
    \* the question prompt returns a reveal or a quit command; the reveal
    \* leads to the grade prompt of the same card, the quit to the exit
    /\ pc = "question" =>
          /\ command' \in RevealCommands \cup QUIT_CMDS \cup {""}
          /\ command' \in RevealCommands =>
                pc' = "answer" /\ card' = card /\ shuffled_cards' = shuffled_cards
          /\ command' \in QUIT_CMDS => pc' = "exiting"
    \* the grade prompt is entered from the question prompt by a reveal only
    /\ (pc' = "answer" /\ pc # "answer") =>
          pc = "question" /\ command' \in RevealCommands
    \* the grade prompt returns a grade or a quit command
    /\ pc = "answer" =>
          /\ command' \in GradeCommands \cup QUIT_CMDS \cup {""}
          /\ command' \in QUIT_CMDS => pc' = "exiting"
    \* after a grade: the question of the card at the front of the queue, or
    \* the end of the session when the queue is empty
    /\ (pc = "answer" /\ command' \in GradeCommands) =>
          IF QueueAfterGrading # <<>>
          THEN /\ pc' = "question"
               /\ card' = Head(QueueAfterGrading)
               /\ shuffled_cards' = Tail(QueueAfterGrading)
          ELSE pc' = "exiting" /\ shuffled_cards' = <<>>
    \* a question is shown when the session starts or after a grade only
    /\ (pc' = "question" /\ pc # "question") =>
          pc = "start" \/ (pc = "answer" /\ command' \in GradeCommands)

\* C18: a card is shown at the question prompt first, which takes a reveal
\* or a quit; the grade prompt follows the reveal and takes a grade or a
\* quit; a grade leads to the question of the front of the queue, or to the
\* end of the session when the queue is empty
C18_SessionProtocol == [][C18_ProtocolStep]_vars

\* both cards of a deck were graded, the last grade emptied the queue and
\* the session is complete
C18_Witness ==
    /\ pc = "exiting"
    /\ command \in GradeCommands
    /\ shuffled_cards = <<>>
    /\ Cardinality(DOMAIN graded) = 2

-----------------------------------------------------------------------------
(* C19: the work queue.                                                    *)

\* C19: while the loop runs, the queue holds cards of the snapshot of the
\* session start only, each path at most once, never the card shown, and no
\* more cards than the snapshot
C19_QueueInvariant ==
    InSession =>
        /\ QueuePaths \subseteq Snapshot
        /\ \A j, k \in 1..Len(shuffled_cards) :
              shuffled_cards[j].path = shuffled_cards[k].path => j = k
        /\ card.path \notin QueuePaths
        /\ Len(shuffled_cards) <= Cardinality(Snapshot)

\* a failed card of a snapshot of two cards waits in the queue while the
\* other card is shown
C19_Witness ==
    /\ pc = "answer"
    /\ Len(shuffled_cards) = 1
    /\ shuffled_cards[1].path \in DOMAIN graded
    /\ Cardinality(Snapshot) = 2

-----------------------------------------------------------------------------
(* C20: the session ends.                                                  *)

C20_GradeStep ==
    (pc = "answer" /\ command' \in GradeCommands) =>
        LET c == flash_cards'[card.path]
            waiting == {shuffled_cards'[k].path : k \in 1..Len(shuffled_cards')}
        IN  \* HARD, PASS, EASY: an interval of 1 or more, the card leaves
            /\ command' \in {"2", "3", "4"} =>
                  /\ Le(One, c.interval)
                  /\ card.path \in retired'
                  /\ card.path \notin waiting
                  /\ pc' = "question" => card'.path # card.path
            \* FAIL under a fail modifier of 0: interval 0, the card is requeued
            /\ (command' = "1" /\ Eq(deck.fail_interval_modifier, Zero)) =>
                  /\ Eq(c.interval, Zero)
                  /\ pc' = "question"
                  /\ card.path \in NextQueuePaths

\* a card that got an interval other than 0 is neither shown nor waiting
C20_RetiredForGood ==
    InSession => retired \cap (QueuePaths \cup {card.path}) = {}

\* the loop was left: by a quit, or, in a review, with an empty queue and
\* every card of the snapshot retired
C20_LoopLeft ==
    /\ pc = "exiting"
    /\ \/ command \in QUIT_CMDS
       \/ print_summary_and_exit
       \/ shuffled_cards = <<>> /\ Snapshot \subseteq retired

\* C20: HARD, PASS and EASY give an interval of at least 1 and remove the
\* card for good, FAIL under the fail modifier 0 requeues it, and when the
\* user goes on and every card shown gets such a grade in the end, the queue
\* empties and the session reaches handle_exit
C20_SessionTerminates ==
    /\ [][C20_GradeStep]_vars
    /\ []C20_RetiredForGood
    /\ <>C20_LoopLeft

\* two cards were retired, a day passed while they were reviewed, and the
\* session is complete
C20_Witness ==
    /\ pc = "exiting"
    /\ shuffled_cards = <<>>
    /\ Cardinality(retired) = 2
    /\ now # session_start.now

====
